---- MODULE Spec2Model ----
(***************************************************************************)
(* A model of the DAWG builder of src/main.c: the word loader, the trie,   *)
(* the move of the end-of-word flags to the edges, the bottom-up           *)
(* compression into a DAWG, the flattening into packed 32-bit entries and  *)
(* the walker that reads the packed image back.                            *)
(*                                                                         *)
(* Characters are their ASCII codes ('a' = 97, 'A' = 65, '\n' = 10).       *)
(* A TrieNode pointer is the index of the node in `heap`, in allocation    *)
(* order; 0 is NULL and the root is node 1.                                *)
(***************************************************************************)
EXTENDS Integers, Sequences, FiniteSets, TLC

VARIABLES
    pc,        \* the position of main
    heap,      \* the TrieNodes allocated so far
    pending,   \* the part of the current line of the file fgets has not read
    ld,        \* the loader's counters and the ghost record of its inputs
    map,       \* the HashMap of dawg_compress
    stats,     \* trie_nodes, dawg_nodes, word_count of main
    flat,      \* dawg_flatten's result: pd and its offset map
    bin,       \* the file dawg.bin
    walk,      \* the outcome of packed_dawg_verify
    pk         \* one packed entry on its way to the file (SpecPack)

vars == <<pc, heap, pending, ld, map, stats, flat, bin, walk, pk>>

(***************************** bounds **************************************)
\* the number of lines a file has at most
MaxLines == 3
\* the number of words of uninitialised memory modelled past a buffer's end
JunkLen == 2

(************************* program constants *******************************)
ALPHABET_SIZE == 26
\* sizeof(line) in trie_load_from_file
LINE_SIZE == 256
\* 0x1FFFFFF, the mask of the 25-bit next field of PACK_NEXT and UNPACK_NEXT
NEXT_MASK == 33554431

Letters == 0 .. (ALPHABET_SIZE - 1)

\* the elements of a set of numbers, ascending
RECURSIVE Ascending(_)
Ascending(S) ==
    IF S = {} THEN <<>>
    ELSE LET m == CHOOSE x \in S : \A y \in S : x <= y
         IN  <<m>> \o Ascending(S \ {m})

\* The i that `for (i = 0; i < ALPHABET_SIZE; i++) if (node->children[i])`
\* takes, in the order of the loop
child_letters(h, node) ==
    Ascending({i \in Letters : h[node].children[i] # 0})

(***************************** the trie ************************************)
\* calloc(1, sizeof(TrieNode))
trie_create_node ==
    [children          |-> [i \in Letters |-> 0],
     child_is_terminal |-> [i \in Letters |-> 0],
     is_end_of_word    |-> 0,
     visited           |-> 0]

\* trie_insert without the test of children[index]: a node is allocated at
\* every letter
trie_insert_step_always_new(s, c) ==
    LET index == c - 97
        id    == Len(s.h) + 1
    IN  [h |-> [Append(s.h, trie_create_node)
                   EXCEPT ![s.current].children[index] = id],
         current |-> id]

\* one turn of the loop of trie_insert; s = [h, current]
trie_insert_step(s, c) ==
    LET index == c - 97
    IN  IF s.h[s.current].children[index] = 0
        THEN LET id == Len(s.h) + 1
             IN  [h |-> [Append(s.h, trie_create_node)
                            EXCEPT ![s.current].children[index] = id],
                  current |-> id]
        ELSE [h |-> s.h, current |-> s.h[s.current].children[index]]

\* the turns lo .. hi of the loop, in their order: the first half of them,
\* then the second half from the state the first half left (the test of
\* first.current makes TLC evaluate the first half first, which keeps its
\* evaluation shallow; current is never NULL)
RECURSIVE trie_insert_turns(_, _, _, _)
trie_insert_turns(s, word, lo, hi) ==
    IF lo > hi THEN s
    ELSE IF lo = hi THEN trie_insert_step(s, word[lo])
    ELSE LET mid   == (lo + hi) \div 2
             first == trie_insert_turns(s, word, lo, mid)
         IN  IF first.current = 0 THEN first
             ELSE trie_insert_turns(first, word, mid + 1, hi)

\* trie_insert(root, word); the root is node 1
trie_insert(h, word) ==
    LET s == trie_insert_turns([h |-> h, current |-> 1], word, 1, Len(word))
    IN  [s.h EXCEPT ![s.current].is_end_of_word = 1]

RECURSIVE trie_count_nodes(_, _)
RECURSIVE trie_count_children(_, _, _, _)
trie_count_children(h, node, ls, k) ==
    IF k > Len(ls) THEN 0
    ELSE trie_count_nodes(h, h[node].children[ls[k]])
            + trie_count_children(h, node, ls, k + 1)

\* a NULL child counts 0
trie_count_nodes(h, node) ==
    IF node = 0 THEN 0
    ELSE 1 + trie_count_children(h, node, child_letters(h, node), 1)

(***************************** the loader **********************************)
isspace(c) == c \in {9, 10, 11, 12, 13, 32}

\* fgets(line, sizeof(line), fp) on a stream whose current line is `rest`:
\* the number of characters read, at most LINE_SIZE - 1, up to and with the
\* first newline
fgets_len(rest) ==
    LET lim == IF Len(rest) < LINE_SIZE - 1 THEN Len(rest) ELSE LINE_SIZE - 1
    IN  IF \E j \in 1 .. lim : rest[j] = 10
        THEN CHOOSE j \in 1 .. lim :
                 rest[j] = 10 /\ \A i \in 1 .. (j - 1) : rest[i] # 10
        ELSE lim

\* while (len > 0 && isspace(line[len - 1])) line[--len] = '\0';
strip(line) ==
    LET len == CHOOSE n \in 0 .. Len(line) :
                   /\ \A j \in (n + 1) .. Len(line) : isspace(line[j])
                   /\ n = 0 \/ ~isspace(line[n])
    IN  SubSeq(line, 1, len)

\* clean_word: lower-cases in place up to the first character that is no
\* letter, where it returns 0
clean_word(word) ==
    LET upper(c) == c >= 65 /\ c <= 90
        bad(c)   == ~upper(c) /\ (c < 97 \/ c > 122)
        stop     == IF \E j \in 1 .. Len(word) : bad(word[j])
                    THEN CHOOSE j \in 1 .. Len(word) :
                             bad(word[j]) /\ \A i \in 1 .. (j - 1) : ~bad(word[i])
                    ELSE Len(word) + 1
    IN  [ok   |-> IF stop > Len(word) THEN 1 ELSE 0,
         word |-> [j \in 1 .. Len(word) |->
                      IF j < stop /\ upper(word[j]) THEN word[j] - 65 + 97
                                                    ELSE word[j]]]

(************************ end-of-word flags to edges ***********************)
RECURSIVE trie_move_eow_to_edges(_, _)
RECURSIVE move_eow_children(_, _, _, _)
move_eow_children(h, node, ls, k) ==
    IF k > Len(ls) THEN h
    ELSE LET i     == ls[k]
             child == h[node].children[i]
             h2    == [h EXCEPT ![node].child_is_terminal[i] =
                                   h[child].is_end_of_word]
         IN  move_eow_children(trie_move_eow_to_edges(h2, child),
                               node, ls, k + 1)

trie_move_eow_to_edges(h, node) ==
    IF node = 0 THEN h
    ELSE move_eow_children(h, node, child_letters(h, node), 1)

(***************************** compression *********************************)
\* The HashMap is the sequence of its HashEntries, the newest first. An entry
\* is found by the memcmp of both keys; entries with equal keys lie in the
\* same bucket, so that the scan of one bucket and the scan of all entries
\* find the same entry.
\* the scan without the memcmp of terminal_key
RECURSIVE hashmap_scan_children_only(_, _, _, _)
hashmap_scan_children_only(m, h, node, k) ==
    IF k > Len(m) THEN 0
    ELSE IF m[k].children_key = h[node].children THEN k
    ELSE hashmap_scan_children_only(m, h, node, k + 1)

RECURSIVE hashmap_scan(_, _, _, _)
hashmap_scan(m, h, node, k) ==
    IF k > Len(m) THEN 0
    ELSE IF m[k].children_key = h[node].children
            /\ m[k].terminal_key = h[node].child_is_terminal
         THEN k
    ELSE hashmap_scan(m, h, node, k + 1)

hashmap_find_or_insert(m, h, node) ==
    LET k == hashmap_scan(m, h, node, 1)
    IN  IF k # 0
        THEN [map |-> m, ret |-> m[k].canonical]
        ELSE [map |-> <<[canonical    |-> node,
                         children_key |-> h[node].children,
                         terminal_key |-> h[node].child_is_terminal]>> \o m,
              ret |-> node]

RECURSIVE dawg_compress_node(_, _, _)
RECURSIVE compress_children(_, _, _, _, _)
\* the loop of dawg_compress_node and of dawg_compress over children[i]
compress_children(h, m, node, ls, k) ==
    IF k > Len(ls) THEN [h |-> h, map |-> m]
    ELSE LET i == ls[k]
             r == dawg_compress_node(h, m, h[node].children[i])
         IN  compress_children([r.h EXCEPT ![node].children[i] = r.ret],
                               r.map, node, ls, k + 1)

dawg_compress_node(h, m, node) ==
    IF node = 0 THEN [h |-> h, map |-> m, ret |-> 0]
    ELSE IF h[node].visited = 1 THEN [h |-> h, map |-> m, ret |-> node]
    ELSE LET h1 == [h EXCEPT ![node].visited = 1]
             c  == compress_children(h1, m, node, child_letters(h1, node), 1)
             f  == hashmap_find_or_insert(c.map, c.h, node)
         IN  [h |-> c.h, map |-> f.map, ret |-> f.ret]

dawg_compress(h, m, root) ==
    compress_children(h, m, root, child_letters(h, root), 1)

(***************************** statistics **********************************)
RECURSIVE dawg_count_nodes(_, _)
RECURSIVE count_nodes_children(_, _, _, _, _)
count_nodes_children(h, node, ls, k, count) ==
    IF k > Len(ls) THEN [h |-> h, count |-> count]
    ELSE LET r == dawg_count_nodes(h, h[node].children[ls[k]])
         IN  count_nodes_children(r.h, node, ls, k + 1, count + r.count)

dawg_count_nodes(h, node) ==
    IF node = 0 THEN [h |-> h, count |-> 0]
    ELSE IF h[node].visited = 1 THEN [h |-> h, count |-> 0]
    ELSE count_nodes_children([h EXCEPT ![node].visited = 1], node,
                              child_letters(h, node), 1, 1)

RECURSIVE dawg_reset_visited(_, _)
RECURSIVE reset_visited_children(_, _, _, _)
reset_visited_children(h, node, ls, k) ==
    IF k > Len(ls) THEN h
    ELSE reset_visited_children(
             dawg_reset_visited(h, h[node].children[ls[k]]), node, ls, k + 1)

dawg_reset_visited(h, node) ==
    IF node = 0 THEN h
    ELSE IF h[node].visited = 0 THEN h
    ELSE reset_visited_children([h EXCEPT ![node].visited = 0], node,
                                child_letters(h, node), 1)

RECURSIVE dawg_count_words(_, _)
RECURSIVE count_words_children(_, _, _, _)
count_words_children(h, node, ls, k) ==
    IF k > Len(ls) THEN 0
    ELSE h[node].child_is_terminal[ls[k]]
            + dawg_count_words(h, h[node].children[ls[k]])
            + count_words_children(h, node, ls, k + 1)

dawg_count_words(h, node) ==
    IF node = 0 THEN 0
    ELSE count_words_children(h, node, child_letters(h, node), 1)

\* the statistics without root->visited = 1
main_dawg_stats_unforced(h, root) ==
    LET h2 == dawg_reset_visited(h, root)
        r  == dawg_count_nodes(h2, root)
    IN  [h |-> r.h, dawg_nodes |-> r.count,
         word_count |-> dawg_count_words(r.h, root)]

\* main, lines 631 to 636: the root was not processed by dawg_compress_node,
\* so its visited flag is forced before the reset
main_dawg_stats(h, root) ==
    LET h1 == [h EXCEPT ![root].visited = 1]
        h2 == dawg_reset_visited(h1, root)
        r  == dawg_count_nodes(h2, root)
    IN  [h |-> r.h, dawg_nodes |-> r.count,
         word_count |-> dawg_count_words(r.h, root)]

(***************************** flattening **********************************)
\* A uint32_t v is the record [hi, lo] of its bits 7 to 31 and its bits 0 to
\* 6, v = hi * 128 + lo (the numbers of TLC have 31 bits). The shifts << 7 and
\* >> 7 of PACK_NEXT and UNPACK_NEXT are the choice of hi; the macros below
\* give the value of their field within hi or lo.
Word32(hi, lo) == [hi |-> hi, lo |-> lo]

PACK_CHAR(c)   == c % 32
PACK_EOW(eow)  == (eow % 2) * 32
PACK_EON(eon)  == (eon % 2) * 64
PACK_NEXT(ptr) == ptr % (NEXT_MASK + 1)

UNPACK_CHAR(v) == v.lo % 32
UNPACK_EOW(v)  == (v.lo \div 32) % 2
UNPACK_EON(v)  == (v.lo \div 64) % 2
UNPACK_NEXT(v) == v.hi % (NEXT_MASK + 1)

count_children(h, node) ==
    Cardinality({i \in Letters : h[node].children[i] # 0})

\* An OffsetMap is the sequence of its OffsetEntries, the newest first; an
\* entry is found by the identity of its node, which also fixes its bucket.
RECURSIVE offset_map_scan(_, _, _)
offset_map_scan(om, node, k) ==
    IF k > Len(om) THEN -1
    ELSE IF om[k].node = node THEN om[k].offset
    ELSE offset_map_scan(om, node, k + 1)

offset_map_get(om, node) == offset_map_scan(om, node, 1)

offset_map_put(om, node, offset) ==
    <<[node |-> node, offset |-> offset]>> \o om

\* phase 1 without the test offset_map_get(om, child) == -1
phase1_child_unchecked(h, s, child) ==
    LET cc == count_children(h, child)
    IN  IF cc > 0
        THEN [om    |-> offset_map_put(s.om, child, s.size),
              size  |-> s.size + cc,
              queue |-> Append(s.queue, child)]
        ELSE [s EXCEPT !.om = offset_map_put(s.om, child, 0)]

\* Phase 1. s = [om, size, queue]; the queue is never shortened, q_front is
\* the number of nodes taken from it and q_back is its length.
phase1_child(h, s, child) ==
    IF offset_map_get(s.om, child) = -1
    THEN LET cc == count_children(h, child)
         IN  IF cc > 0
             THEN [om    |-> offset_map_put(s.om, child, s.size),
                   size  |-> s.size + cc,
                   queue |-> Append(s.queue, child)]
             ELSE [s EXCEPT !.om = offset_map_put(s.om, child, 0)]
    ELSE s

RECURSIVE phase1_children(_, _, _, _, _)
phase1_children(h, s, node, ls, k) ==
    IF k > Len(ls) THEN s
    ELSE phase1_children(h, phase1_child(h, s, h[node].children[ls[k]]),
                         node, ls, k + 1)

RECURSIVE phase1_loop(_, _, _)
phase1_loop(h, s, q_front) ==
    IF q_front < Len(s.queue)
    THEN LET node == s.queue[q_front + 1]
         IN  phase1_loop(h, phase1_children(h, s, node,
                                            child_letters(h, node), 1),
                         q_front + 1)
    ELSE s

phase1(h, root) ==
    phase1_loop(h, [om    |-> offset_map_put(<<>>, root, 0),
                    size  |-> count_children(h, root),
                    queue |-> <<root>>], 0)

\* the entry with the two flags taken one for the other
pack_entry_swapped_flags(i, eow, is_last, child_offset) ==
    Word32(PACK_NEXT(child_offset),
           PACK_CHAR(i + 1) + PACK_EOW(is_last) + PACK_EON(eow))

\* the entry of the edge i of a node (lines 447 to 454)
pack_entry(i, eow, is_last, child_offset) ==
    Word32(PACK_NEXT(child_offset),
           PACK_CHAR(i + 1) + PACK_EOW(eow) + PACK_EON(is_last))

\* phase 2 with is_last = (slot == num_children)
phase2_edge_late_last(h, om, s, node, i) ==
    LET child        == h[node].children[i]
        base_offset  == offset_map_get(om, node)
        num_children == count_children(h, node)
        child_offset == offset_map_get(om, child)
        is_last      == IF s.slot = num_children THEN 1 ELSE 0
        entry        == pack_entry(i, h[node].child_is_terminal[i], is_last,
                                   child_offset)
        fresh        == offset_map_get(s.visited, child) = -1
                           /\ count_children(h, child) > 0
    IN  [data    |-> [s.data EXCEPT ![base_offset + s.slot] = entry],
         writes  |-> Append(s.writes, base_offset + s.slot),
         slot    |-> s.slot + 1,
         visited |-> IF fresh THEN offset_map_put(s.visited, child, 1)
                              ELSE s.visited,
         queue   |-> IF fresh THEN Append(s.queue, child) ELSE s.queue]

\* Phase 2. s = [data, writes, visited, queue, slot]; writes is the ghost
\* list of the indices of pd->data written, in the order of the writes.
phase2_edge(h, om, s, node, i) ==
    LET child        == h[node].children[i]
        base_offset  == offset_map_get(om, node)
        num_children == count_children(h, node)
        child_offset == offset_map_get(om, child)
        is_last      == IF s.slot = num_children - 1 THEN 1 ELSE 0
        entry        == pack_entry(i, h[node].child_is_terminal[i], is_last,
                                   child_offset)
        fresh        == offset_map_get(s.visited, child) = -1
                           /\ count_children(h, child) > 0
    IN  [data    |-> [s.data EXCEPT ![base_offset + s.slot] = entry],
         writes  |-> Append(s.writes, base_offset + s.slot),
         slot    |-> s.slot + 1,
         visited |-> IF fresh THEN offset_map_put(s.visited, child, 1)
                              ELSE s.visited,
         queue   |-> IF fresh THEN Append(s.queue, child) ELSE s.queue]

RECURSIVE phase2_children(_, _, _, _, _, _)
phase2_children(h, om, s, node, ls, k) ==
    IF k > Len(ls) THEN s
    ELSE phase2_children(h, om, phase2_edge(h, om, s, node, ls[k]),
                         node, ls, k + 1)

RECURSIVE phase2_loop(_, _, _, _)
phase2_loop(h, om, s, q_front) ==
    IF q_front < Len(s.queue)
    THEN LET node == s.queue[q_front + 1]
         IN  phase2_loop(h, om,
                         phase2_children(h, om, [s EXCEPT !.slot = 0], node,
                                         child_letters(h, node), 1),
                         q_front + 1)
    ELSE s

phase2(h, om, size, root) ==
    phase2_loop(h, om, [data    |-> [k \in 0 .. (size - 1) |-> Word32(0, 0)],
                        writes  |-> <<>>,
                        slot    |-> 0,
                        visited |-> offset_map_put(<<>>, root, 1),
                        queue   |-> <<root>>], 0)

\* dawg_flatten: pd->data[0 .. size-1] and pd->size, with the offset map and
\* the writes of phase 2 kept for the properties
dawg_flatten(h, root) ==
    LET p1 == phase1(h, root)
        p2 == phase2(h, p1.om, p1.size, root)
    IN  [data |-> p2.data, size |-> p1.size, om |-> p1.om, writes |-> p2.writes]

(***************************** the walker **********************************)
\* Words a read past the end of the array can find there: 0, an entry with
\* end-of-node alone, the last entry 'a' with end-of-word, the entry 'b' with
\* end-of-word that is not the last of its block.
Garbage == {Word32(0, 0), Word32(0, 64), Word32(0, 97), Word32(0, 34)}

\* acc = [words, count, reads, fault, frames, spans]: the words printed,
\* *word_count, the indices of data read, whether the walk left the modelled
\* memory, the index each running call of packed_dawg_walk entered its loop
\* at (innermost last), and for each loop that ended the pair of the index it
\* was entered at and the index of the entry it broke on.
\* data[index] for index >= size is junk[index - size]: uninitialised memory.
RECURSIVE packed_dawg_walk(_, _, _, _, _, _, _)
RECURSIVE walk_siblings(_, _, _, _, _, _, _)
walk_siblings(data, size, junk, index, buffer, depth, acc) ==
    IF index >= size + JunkLen THEN [acc EXCEPT !.fault = TRUE]
    ELSE
    LET v    == IF index < size THEN data[index] ELSE junk[index - size]
        c    == UNPACK_CHAR(v)
        eow  == UNPACK_EOW(v)
        eon  == UNPACK_EON(v)
        next == UNPACK_NEXT(v)
        buf  == Append(buffer, 97 + c - 1)
        a0   == [acc EXCEPT !.reads = Append(acc.reads, index)]
        a1   == IF eow = 1
                THEN [a0 EXCEPT !.words = Append(a0.words, buf),
                                !.count = a0.count + 1]
                ELSE a0
        a2   == IF next # 0
                THEN packed_dawg_walk(data, size, junk, next, buf, depth + 1, a1)
                ELSE a1
    IN  IF a2.fault THEN a2
        ELSE IF eon = 1
        THEN [a2 EXCEPT !.frames = SubSeq(a2.frames, 1, Len(a2.frames) - 1),
                        !.spans  = Append(a2.spans,
                                          <<a2.frames[Len(a2.frames)], index>>)]
        ELSE walk_siblings(data, size, junk, index + 1, buffer, depth, a2)

\* buffer holds buffer[0 .. depth-1]; the walk writes buffer[depth] before it
\* reads it
packed_dawg_walk(data, size, junk, index, buffer, depth, acc) ==
    IF index = 0 /\ depth > 0 THEN acc
    ELSE walk_siblings(data, size, junk, index, buffer, depth,
                       [acc EXCEPT !.frames = Append(acc.frames, index)])

NoWalk ==
    [words |-> <<>>, count |-> 0, reads |-> <<>>, fault |-> FALSE,
     frames |-> <<>>, spans |-> <<>>]

\* packed_dawg_verify on a file of `size` entries
packed_dawg_verify(data, size, junk) ==
    packed_dawg_walk(data, size, junk, 0, <<>>, 0, NoWalk)

(***************************** inputs **************************************)
\* The lines a word file is made of, each with its newline:
\* "a", "ab", "abc", "cb", "Cb ", "cbc", "cat", "cats", "bats"
Lines ==
    { <<97, 10>>, <<97, 98, 10>>, <<97, 98, 99, 10>>, <<99, 98, 10>>,
      <<67, 98, 32, 10>>, <<99, 98, 99, 10>>, <<99, 97, 116, 10>>,
      <<99, 97, 116, 115, 10>>, <<98, 97, 116, 115, 10>> }

\* a line of n times the letter 'a', then `tail`
ManyA(n, tail) == [k \in 1 .. n |-> 97] \o tail

\* The lines of SpecLoad: "a", "Ab", "b1", "", "cb \t", and three lines of
\* LINE_SIZE - 1 letters or more: exactly 255 letters, 255 letters and "b",
\* 255 letters and "b2"
LoadLines ==
    { <<97, 10>>, <<65, 98, 10>>, <<98, 49, 10>>, <<10>>, <<99, 98, 32, 9, 10>>,
      ManyA(LINE_SIZE - 1, <<10>>),
      ManyA(LINE_SIZE - 1, <<98, 10>>),
      ManyA(LINE_SIZE - 1, <<98, 50, 10>>) }

(***************************** the program *********************************)
NoFlat == [data |-> <<>>, size |-> 0, om |-> <<>>, writes |-> <<>>]
NoBin  == [written |-> FALSE, data |-> <<>>, size |-> 0]
NoPack == [i |-> 0, eow |-> 0, is_last |-> 0, child_offset |-> 0, size |-> 0,
           entry |-> Word32(0, 0)]

\* main up to the first fgets: the root is allocated, the counters are 0.
\* ld.seq (the words given to trie_insert, in their order), ld.line (the line
\* of the file being read) and ld.from_line (the words inserted from it) are
\* ghosts.
Init ==
    /\ pc = "load"
    /\ heap = <<trie_create_node>>
    /\ pending = <<>>
    /\ ld = [words_loaded |-> 0, words_skipped |-> 0, lines |-> 0,
             seq |-> <<>>, line |-> <<>>, from_line |-> <<>>]
    /\ map = <<>>
    /\ stats = [trie_nodes |-> 0, dawg_nodes |-> 0, word_count |-> 0]
    /\ flat = NoFlat
    /\ bin = NoBin
    /\ walk = NoWalk
    /\ pk = NoPack

\* One turn of the loop of trie_load_from_file: fgets reads from the line the
\* stream stands in (the next line of the file, one of L, when the last one
\* was read to its end), then the strip, clean_word and trie_insert.
Fgets(L) ==
    /\ pc = "load"
    /\ pending = <<>> => ld.lines < MaxLines
    /\ \E rest \in (IF pending = <<>> THEN L ELSE {pending}) :
         LET k     == fgets_len(rest)
             line  == strip(SubSeq(rest, 1, k))
             cw    == clean_word(line)
             ld1   == IF pending = <<>>
                      THEN [ld EXCEPT !.lines = ld.lines + 1, !.line = rest,
                                      !.from_line = <<>>]
                      ELSE ld
         IN  /\ pending' = SubSeq(rest, k + 1, Len(rest))
             /\ IF Len(line) > 0 /\ cw.ok = 1
                THEN /\ heap' = trie_insert(heap, cw.word)
                     /\ ld' = [ld1 EXCEPT
                                 !.words_loaded = ld1.words_loaded + 1,
                                 !.seq = Append(ld1.seq, cw.word),
                                 !.from_line = Append(ld1.from_line, cw.word)]
                ELSE /\ heap' = heap
                     /\ ld' = IF Len(line) > 0
                              THEN [ld1 EXCEPT !.words_skipped =
                                                  ld1.words_skipped + 1]
                              ELSE ld1
    /\ UNCHANGED <<pc, map, stats, flat, bin, walk, pk>>

\* fgets returns NULL: the loader closes the file and returns the root
Eof ==
    /\ pc = "load"
    /\ pending = <<>>
    /\ pc' = "loaded"
    /\ UNCHANGED <<heap, pending, ld, map, stats, flat, bin, walk, pk>>

\* main, line 617
TrieStats ==
    /\ pc = "loaded"
    /\ stats' = [stats EXCEPT !.trie_nodes = trie_count_nodes(heap, 1)]
    /\ pc' = "trie_counted"
    /\ UNCHANGED <<heap, pending, ld, map, flat, bin, walk, pk>>

MoveEow ==
    /\ pc = "trie_counted"
    /\ heap' = trie_move_eow_to_edges(heap, 1)
    /\ pc' = "moved"
    /\ UNCHANGED <<pending, ld, map, stats, flat, bin, walk, pk>>

Compress ==
    /\ pc = "moved"
    /\ LET r == dawg_compress(heap, <<>>, 1)
       IN  heap' = r.h /\ map' = r.map
    /\ pc' = "compressed"
    /\ UNCHANGED <<pending, ld, stats, flat, bin, walk, pk>>

\* main, lines 631 to 636
Count ==
    /\ pc = "compressed"
    /\ LET r == main_dawg_stats(heap, 1)
       IN  /\ heap' = r.h
           /\ stats' = [stats EXCEPT !.dawg_nodes = r.dawg_nodes,
                                     !.word_count = r.word_count]
    /\ pc' = "counted"
    /\ UNCHANGED <<pending, ld, map, flat, bin, walk, pk>>

Flatten ==
    /\ pc = "counted"
    /\ flat' = dawg_flatten(heap, 1)
    /\ pc' = "flattened"
    /\ UNCHANGED <<heap, pending, ld, map, stats, bin, walk, pk>>

\* fwrite(pd->data, sizeof(uint32_t), pd->size, fp)
Write ==
    /\ pc = "flattened"
    /\ bin' = [written |-> TRUE, data |-> flat.data, size |-> flat.size]
    /\ pc' = "written"
    /\ UNCHANGED <<heap, pending, ld, map, stats, flat, walk, pk>>

\* packed_dawg_verify reads the file back and walks it. What lies past the
\* end of the buffer is any junk; a walk that reads none of it does not
\* depend on the junk.
Verify ==
    /\ pc = "written"
    /\ LET Junk == [0 .. (JunkLen - 1) -> Garbage]
           w0   == packed_dawg_verify(bin.data, bin.size,
                                      [k \in 0 .. (JunkLen - 1) |-> Word32(0, 0)])
       IN  IF ~w0.fault /\ \A k \in 1 .. Len(w0.reads) : w0.reads[k] < bin.size
           THEN walk' = w0
           ELSE \E junk \in Junk :
                    walk' = packed_dawg_verify(bin.data, bin.size, junk)
    /\ pc' = "verified"
    /\ UNCHANGED <<heap, pending, ld, map, stats, flat, bin, pk>>

Next ==
    \/ Fgets(Lines)
    \/ Eof
    \/ TrieStats
    \/ MoveEow
    \/ Compress
    \/ Count
    \/ Flatten
    \/ Write
    \/ Verify

Spec == Init /\ [][Next]_vars

(***************************** the loader alone ****************************)
NextLoad ==
    \/ Fgets(LoadLines)
    \/ Eof

SpecLoad == Init /\ [][NextLoad]_vars

(***************************** properties **********************************)
\* the set of the words inserted
W == {ld.seq[k] : k \in 1 .. Len(ld.seq)}

\* the set of the words the walker printed
WalkWords == {walk.words[k] : k \in 1 .. Len(walk.words)}

\* the walk printed exactly the words inserted, each once
RoundTrip ==
    /\ ~walk.fault
    /\ WalkWords = W
    /\ Len(walk.words) = Cardinality(W)
    /\ walk.count = Cardinality(W)

\* C1, as claimed: for every set W of words inserted, the walk of the image
\* from index 0 emits every word of W exactly once and no other word, and
\* counts |W| words.
C1_WalkEmitsExactlyW == pc = "verified" => RoundTrip

\* What holds of the code: the same, for every W that is not empty.
RoundTripNonEmpty == (pc = "verified" /\ W # {}) => RoundTrip

\* the elements of a set in an order that the set alone fixes
RECURSIVE SetSeq(_)
SetSeq(S) ==
    IF S = {} THEN <<>>
    ELSE LET x == CHOOSE y \in S : TRUE
         IN  <<x>> \o SetSeq(S \ {x})

RECURSIVE InsertAll(_, _, _)
InsertAll(h, ws, k) ==
    IF k > Len(ws) THEN h ELSE InsertAll(trie_insert(h, ws[k]), ws, k + 1)

\* the image of the words ws inserted in this order
ImageOf(ws) ==
    LET h0 == InsertAll(<<trie_create_node>>, ws, 1)
        h1 == trie_move_eow_to_edges(h0, 1)
        r  == dawg_compress(h1, <<>>, 1)
        f  == dawg_flatten(r.h, 1)
    IN  [size |-> f.size, data |-> f.data]

Flattened == pc \in {"flattened", "written", "verified"}

\* C2: the image depends only on the set of the words inserted: whatever the
\* order of the insertions and however often a word was inserted, the image
\* has the entries of the image built from the set, each word inserted once
\* in the order the set fixes.
C2_ImageDependsOnSet ==
    Flattened => [size |-> flat.size, data |-> flat.data] = ImageOf(SetSeq(W))

\* an image built from x, y, x, where the set {x, y} is taken as y, x
C2_Witness ==
    /\ pc = "flattened"
    /\ Len(ld.seq) = 3
    /\ ld.seq[1] = ld.seq[3]
    /\ ld.seq[1] # ld.seq[2]
    /\ SetSeq(W) = <<ld.seq[2], ld.seq[1]>>
    /\ flat.size > 2

(************************ the graph under the root *************************)
Succ(h, n) == {h[n].children[i] : i \in Letters} \ {0}

RECURSIVE ReachFrom(_, _, _)
ReachFrom(h, seen, frontier) ==
    IF frontier = {} THEN seen
    ELSE LET next == (UNION {Succ(h, n) : n \in frontier}) \ seen
         IN  ReachFrom(h, seen \cup next, next)

\* the nodes reachable from the root, the root among them
Reach(h) == ReachFrom(h, {1}, {1})

\* the words spelled by the paths from n that end with a terminal edge
RECURSIVE RightLang(_, _)
RightLang(h, n) ==
    UNION { (IF h[n].child_is_terminal[i] = 1 THEN {<<97 + i>>} ELSE {})
              \cup {<<97 + i>> \o x : x \in RightLang(h, h[n].children[i])}
            : i \in {j \in Letters : h[n].children[j] # 0} }

\* The trie has one node for every prefix of a word of W; the right language
\* of the node of the prefix p is the set of the non-empty x with p \o x in W.
TriePrefixes ==
    {<<>>} \cup UNION {{SubSeq(w, 1, k) : k \in 0 .. Len(w)} : w \in W}

SuffixesOf(p) ==
    {SubSeq(w, Len(p) + 1, Len(w)) :
        w \in {v \in W : Len(v) > Len(p) /\ SubSeq(v, 1, Len(p)) = p}}

TrieClasses == {SuffixesOf(p) : p \in TriePrefixes}

Parents(h, n) == {m \in Reach(h) : n \in Succ(h, m)}

Compressed == pc \in {"compressed", "counted", "flattened", "written", "verified"}

\* C3: after dawg_compress the graph under the root is minimal: it has as many
\* nodes as the trie has right languages (and its nodes have exactly these
\* languages), the childless nodes are one node, and two distinct nodes differ
\* in their right language and in their pair of child vector and terminal
\* vector.
C3_Minimal ==
    Compressed =>
        LET R == Reach(heap)
        IN  /\ Cardinality(R) = Cardinality(TrieClasses)
            /\ {RightLang(heap, n) : n \in R} = TrieClasses
            /\ \A n, m \in R :
                 n # m =>
                    /\ RightLang(heap, n) # RightLang(heap, m)
                    /\ <<heap[n].children, heap[n].child_is_terminal>>
                          # <<heap[m].children, heap[m].child_is_terminal>>
                    /\ ~(Succ(heap, n) = {} /\ Succ(heap, m) = {})

\* nodes were merged: a node with children has two parents, and two nodes with
\* the same children differ in their terminal vector only
C3_Witness ==
    /\ pc = "compressed"
    /\ Len(heap) > Cardinality(Reach(heap)) + 1
    /\ \E n \in Reach(heap) :
         Succ(heap, n) # {} /\ Cardinality(Parents(heap, n)) > 1
    /\ \E n, m \in Reach(heap) :
         /\ n # m
         /\ heap[n].children = heap[m].children
         /\ heap[n].child_is_terminal # heap[m].child_is_terminal

(***************************** the image ***********************************)
Off(n) == offset_map_get(flat.om, n)

\* the nodes that have a child block
Blocked == {n \in Reach(heap) : count_children(heap, n) > 0}

Block(n) == Off(n) .. (Off(n) + count_children(heap, n) - 1)

InImage(k) == k >= 0 /\ k < flat.size

RECURSIVE SumChildren(_)
SumChildren(S) ==
    IF S = {} THEN 0
    ELSE LET n == CHOOSE m \in S : TRUE
         IN  count_children(heap, n) + SumChildren(S \ {n})

\* C10: dawg_flatten gives every reachable node one offset, the root's block
\* starts at 0, the blocks of distinct nodes are disjoint and cover
\* 0 .. size-1, the size is the sum of the child counts, and phase 2 writes
\* every index of 0 .. size-1 once.
C10_BlocksTile ==
    Flattened =>
        /\ \A n \in Reach(heap) :
             Cardinality({k \in 1 .. Len(flat.om) : flat.om[k].node = n}) = 1
        /\ Block(1) = 0 .. (count_children(heap, 1) - 1)
        /\ \A n, m \in Blocked : n # m => Block(n) \cap Block(m) = {}
        /\ UNION {Block(n) : n \in Blocked} = 0 .. (flat.size - 1)
        /\ flat.size = SumChildren(Blocked)
        /\ Len(flat.writes) = flat.size
        /\ \A k \in 0 .. (flat.size - 1) :
             Cardinality({j \in 1 .. Len(flat.writes) : flat.writes[j] = k}) = 1

\* an image in which a node with children is the target of two edges
C10_Witness ==
    /\ pc = "flattened"
    /\ flat.size >= 4
    /\ \E n \in Blocked : Cardinality(Parents(heap, n)) > 1

(***************************** the empty file ******************************)
\* C6, as claimed: for the empty word set dawg_flatten yields an image of no
\* entry, the binary written has 0 bytes, and packed_dawg_verify, which calls
\* packed_dawg_walk at index 0 on the array of no entry, finds no word.
C6_EmptyYieldsNoWords ==
    (W = {} /\ Flattened) =>
        /\ flat.size = 0
        /\ pc \in {"written", "verified"} => (bin.written /\ bin.size = 0)
        /\ pc = "verified" =>
              (~walk.fault /\ walk.words = <<>> /\ walk.count = 0
                 /\ walk.reads = <<>>)

\* What holds of the code: the image of the empty set has no entry and the
\* binary written has 0 bytes.
EmptyImage ==
    (W = {} /\ Flattened) =>
        /\ flat.size = 0
        /\ pc \in {"written", "verified"} => (bin.written /\ bin.size = 0)

(***************************** the order of the walk ***********************)
\* a is before b in the lexicographic order, a proper prefix before its
\* extensions
LexLess(a, b) ==
    \E k \in 1 .. Len(b) :
        /\ \A j \in 1 .. (k - 1) : j <= Len(a) /\ a[j] = b[j]
        /\ k > Len(a) \/ a[k] < b[k]

Ascending2(ws) == \A k \in 1 .. (Len(ws) - 1) : LexLess(ws[k], ws[k + 1])

\* C7, as claimed: for every image built from a word set, the words the walk
\* emits are strictly ascending in the lexicographic order, a word before its
\* proper extensions.
C7_WalkAscending == pc = "verified" => Ascending2(walk.words)

\* What holds of the code: the same, for every W that is not empty.
WalkAscendingNonEmpty == (pc = "verified" /\ W # {}) => Ascending2(walk.words)

(***************************** the walk stays in the image *****************)
\* the loops of packed_dawg_walk that ended, as pairs <<entered at, broke on>>
WalkSpans == {walk.spans[j] : j \in 1 .. Len(walk.spans)}

\* the indices of data the walk read
WalkReads == {walk.reads[k] : k \in 1 .. Len(walk.reads)}

PathCat ==
    LET c == heap[1].children[2]
        a == IF c = 0 THEN 0 ELSE heap[c].children[0]
        t == IF a = 0 THEN 0 ELSE heap[a].children[19]
    IN  /\ t # 0
        /\ heap[a].child_is_terminal[19] = 1
        /\ heap[t].children[18] # 0
        /\ heap[t].child_is_terminal[18] = 1

CatCats == W = {<<99, 97, 116>>, <<99, 97, 116, 115>>}

Counted == pc \in {"counted", "flattened", "written", "verified"}

\* C8, as claimed: for {cat, cats} the DAWG has 3 nodes and the root, so that
\* dawg_count_nodes, which counts the root too, finds 3 + 1, and it has the
\* path c -> a -> t with the terminal t-edge and the terminal s-edge after it.
C8_ThreeNodesAndRoot ==
    (Counted /\ CatCats) => (stats.dawg_nodes = 3 + 1 /\ PathCat)

\* C8, amended: for {cat, cats} the DAWG has 4 nodes (the targets of c, a, t
\* and the leaf after s) and the root, dawg_count_nodes finds 4 + 1, and the
\* path is as claimed.
C8_FourNodesAndRoot ==
    (Counted /\ CatCats) =>
        /\ stats.dawg_nodes = 4 + 1
        /\ Cardinality(Reach(heap)) = 4 + 1
        /\ PathCat

C8_Witness == pc = "counted" /\ CatCats /\ ld.words_loaded = 2

(***************************** long lines **********************************)
Lower(line) ==
    [j \in 1 .. Len(line) |->
        IF line[j] >= 65 /\ line[j] <= 90 THEN line[j] - 65 + 97 ELSE line[j]]

IsPrefix(p, w) == Len(p) <= Len(w) /\ SubSeq(w, 1, Len(p)) = p

\* the line being read has more than LINE_SIZE - 1 characters before its
\* newline
LongLine == Len(ld.line) - 1 > LINE_SIZE - 1

\* C9, as claimed: a line of more than 255 characters gives the trie at most
\* one word, a truncation of the line, and nothing else of the line is
\* inserted or counted as loaded.
C9_LongLineOneWord ==
    LongLine =>
        /\ Len(ld.from_line) <= 1
        /\ \A k \in 1 .. Len(ld.from_line) :
             IsPrefix(ld.from_line[k], Lower(ld.line))

(***************************** the next field ******************************)
\* The offsets of child blocks in images of up to 2^25 + 3 entries
PackOffsets == {0, 1, 2, NEXT_MASK, NEXT_MASK + 1, NEXT_MASK + 2}

\* dawg_flatten about to pack the edge pk.i of a node, whose target has the
\* offset pk.child_offset in an image of pk.size entries
InitPack ==
    /\ pc = "pack"
    /\ heap = <<trie_create_node>>
    /\ pending = <<>>
    /\ ld = [words_loaded |-> 0, words_skipped |-> 0, lines |-> 0,
             seq |-> <<>>, line |-> <<>>, from_line |-> <<>>]
    /\ map = <<>>
    /\ stats = [trie_nodes |-> 0, dawg_nodes |-> 0, word_count |-> 0]
    /\ flat = NoFlat
    /\ bin = NoBin
    /\ walk = NoWalk
    /\ \E i \in Letters, eow \in {0, 1}, is_last \in {0, 1},
          child_offset \in PackOffsets :
          pk = [i |-> i, eow |-> eow, is_last |-> is_last,
                child_offset |-> child_offset, size |-> child_offset + 1,
                entry |-> Word32(0, 0)]

\* lines 447 to 456: the entry is packed and stored, whatever the offset
PackEdge ==
    /\ pc = "pack"
    /\ pk' = [pk EXCEPT !.entry = pack_entry(pk.i, pk.eow, pk.is_last,
                                             pk.child_offset)]
    /\ pc' = "packed"
    /\ UNCHANGED <<heap, pending, ld, map, stats, flat, bin, walk>>

\* main, lines 655 to 671: the pd->size entries are written, whatever the
\* size (the entries themselves are not kept here)
WritePacked ==
    /\ pc = "packed"
    /\ bin' = [bin EXCEPT !.written = TRUE, !.size = pk.size]
    /\ pc' = "pack_written"
    /\ UNCHANGED <<heap, pending, ld, map, stats, flat, walk, pk>>

NextPack ==
    \/ PackEdge
    \/ WritePacked

SpecPack == InitPack /\ [][NextPack]_vars

\* C5, as claimed: no entry holds a next field that is a truncated offset, and
\* no binary is written for an image of more than 2^25 entries.
C5_CapacityError ==
    /\ pc \in {"packed", "pack_written"} =>
          UNPACK_NEXT(pk.entry) = pk.child_offset
    /\ bin.written => bin.size <= NEXT_MASK + 1

====
